---- MODULE Spec2Model ----
(***************************************************************************)
(* Photo analyzer: the incremental analyse-and-cache pipeline              *)
(* (analyze_photos.py) over the SQLite store (db.py), the directory scan   *)
(* and file stats (util.py) and the image analyzer (analysis.py).          *)
(***************************************************************************)
EXTENDS Integers, Sequences, FiniteSets, TLC

\* ------------------------------------------------------------------ bounds
MaxRuns == 2      \* pipeline runs started in one behaviour
MaxFsOps == 1     \* file-system changes made after the first run of a behaviour
MaxUpserts == 2   \* upserts one connection issues in one behaviour (SpecConc)
MaxStoreOps == 3  \* upserts and reconciles issued in one behaviour (SpecStore)
MaxDelta == 3     \* scores tried on each side of a threshold, in steps of one unit
                  \* (SpecAnalyze)
MaxBoxes == 1     \* boxes one cascade finds in one image (SpecImage)
MaxCalls == 2     \* calls into analysis.py in one process (SpecImage)
MaxFiles == 2     \* files in the scanned tree (SpecScan)

\* ------------------------------------------------------ the file system
Roots == {"/a", "/b"}
Paths == {"p.jpg", "q.jpg"}
\* The relative paths that occur under each root ("p.jpg" under both).
PathsOf(root) == IF root = "/a" THEN {"p.jpg", "q.jpg"} ELSE {"p.jpg"}
Sizes == {10, 20}      \* st_size
Mtimes == {100, 200}   \* st_mtime_ns

\* A directory entry at root/path: no entry, an entry os.walk lists among the
\* files but os.stat cannot follow (a dangling link), or a regular file with
\* its stat fields and whether cv2.imread can decode it.
Absent == [kind |-> "absent", size |-> 0, mtime |-> 0, img |-> "none"]
Dangling == [kind |-> "dangling", size |-> 0, mtime |-> 0, img |-> "none"]
RegularFiles == [kind : {"file"}, size : Sizes, mtime : Mtimes,
                 img : {"ok", "corrupt"}]
Entries == {Absent, Dangling} \cup RegularFiles

\* The directories a behaviour starts from: every path missing, a file with
\* the first fingerprint (decodable or not), or a dangling link.
FirstFile == [kind |-> "file", size |-> 10, mtime |-> 100, img |-> "ok"]
CorruptFile == [FirstFile EXCEPT !.img = "corrupt"]
InitialFs ==
    {f \in [Roots -> [Paths -> {Absent, FirstFile, CorruptFile, Dangling}]] :
        \A r \in Roots : \A p \in Paths \ PathsOf(r) : f[r][p] = Absent}

\* The spellings of the input directory given on the command line: the two
\* canonical paths, and for "/a" a relative path (the working directory is
\* "/"), a symbolic link to it, and a path with a redundant segment.
InputDirs == Roots \cup {"a", "/link", "/a/."}
Segments(input_dir) ==
    IF input_dir = "/a" THEN [abs |-> TRUE, segs |-> <<"a">>]
    ELSE IF input_dir = "/b" THEN [abs |-> TRUE, segs |-> <<"b">>]
    ELSE IF input_dir = "a" THEN [abs |-> FALSE, segs |-> <<"a">>]
    ELSE IF input_dir = "/link" THEN [abs |-> TRUE, segs |-> <<"link">>]
    ELSE [abs |-> TRUE, segs |-> <<"a", ".">>]
Cwd == <<>>
LinkTarget(path) == IF path = <<"link">> THEN <<"a">> ELSE path
PathStr(path) ==
    IF path = <<"a">> THEN "/a" ELSE IF path = <<"b">> THEN "/b" ELSE "/"

\* Path resolution, segment by segment: "." is dropped, ".." leaves the
\* directory reached so far, a symbolic link is replaced by its target.
RECURSIVE Walk(_, _)
Walk(cur, segs) ==
    IF segs = <<>> THEN cur
    ELSE IF Head(segs) = "." THEN Walk(cur, Tail(segs))
    ELSE IF Head(segs) = ".."
    THEN Walk(IF cur = <<>> THEN cur ELSE SubSeq(cur, 1, Len(cur) - 1), Tail(segs))
    ELSE Walk(LinkTarget(Append(cur, Head(segs))), Tail(segs))

\* The directory the operating system reaches when the process opens input_dir
\* (os.walk, os.stat and cv2.imread go through it).
KernelDir(input_dir) ==
    PathStr(Walk(IF Segments(input_dir).abs THEN <<>> ELSE Cwd,
                 Segments(input_dir).segs))

\* Mutant of ResolveRoot: the root key is the argument as given.
ResolveRoot_AsGiven(input_dir) == input_dir

\* analyze_photos.py line 115: root_path = str(Path(input_dir).resolve()).
ResolveRoot(input_dir) ==
    PathStr(Walk(IF Segments(input_dir).abs THEN <<>> ELSE Cwd,
                 Segments(input_dir).segs))

\* ------------------------------------------------------------ the store
\* One row of photo_analysis. The analysis columns (width .. center_category)
\* are carried as one value, analysis.
NoRow == [id |-> 0, root |-> "", path |-> "", size_bytes |-> 0, mtime_ns |-> 0,
          analysis |-> "none", analyzed_at |-> 0]

SetMax(S) == CHOOSE x \in S : \A y \in S : y <= x
SetMin(S) == CHOOSE x \in S : \A y \in S : x <= y

\* INTEGER PRIMARY KEY without AUTOINCREMENT: one more than the largest rowid.
NextId(st) == IF st = {} THEN 1 ELSE SetMax({r.id : r \in st}) + 1

RowsFor(st, root, path) == {r \in st : r.root = root /\ r.path = path}

\* fetchone() over rows in rowid order.
FirstRow(rows) ==
    IF rows = {} THEN NoRow
    ELSE CHOOSE r \in rows : r.id = SetMin({x.id : x \in rows})

\* Mutants of get_cached_analysis: a WHERE clause that leaves out mtime_ns,
\* one that leaves out size_bytes, and one that matches no row.
get_cached_IgnoresMtime(st, root, path, size_bytes, mtime_ns) ==
    FirstRow({r \in RowsFor(st, root, path) : r.size_bytes = size_bytes})
get_cached_IgnoresSize(st, root, path, size_bytes, mtime_ns) ==
    FirstRow({r \in RowsFor(st, root, path) : r.mtime_ns = mtime_ns})
get_cached_NeverHits(st, root, path, size_bytes, mtime_ns) ==
    FirstRow({r \in RowsFor(st, root, path) :
                 r.size_bytes = mtime_ns /\ r.mtime_ns = size_bytes})
\* And one that matches on root and path alone.
get_cached_PathOnly(st, root, path, size_bytes, mtime_ns) ==
    FirstRow(RowsFor(st, root, path))

\* get_cached_analysis: SELECT * ... WHERE root = ? AND path = ? AND
\* size_bytes = ? AND mtime_ns = ?, fetchone, the row or None.
get_cached_analysis(st, root, path, size_bytes, mtime_ns) ==
    FirstRow({r \in RowsFor(st, root, path) :
                 r.size_bytes = size_bytes /\ r.mtime_ns = mtime_ns})

\* Mutant of SelectExisting: the existence check finds nothing.
SelectExisting_FindsNothing(st, root, path) == 0

\* Mutant of SelectExisting: the existence check leaves out "root = ?".
SelectExisting_AnyRoot(st, root, path) == FirstRow({r \in st : r.path = path}).id

\* upsert_analysis, first statement: SELECT id ... WHERE root = ? AND path = ?.
SelectExisting(st, root, path) == FirstRow(RowsFor(st, root, path)).id

\* Mutant of UpsertWrite: the UPDATE leaves analyzed_at out of its SET list.
UpsertWrite_KeepsTimestamp(st, existing, data) ==
    IF existing # 0
    THEN {IF r.id = existing
          THEN [r EXCEPT !.size_bytes = data.size_bytes,
                         !.mtime_ns = data.mtime_ns,
                         !.analysis = data.analysis]
          ELSE r : r \in st}
    ELSE st \cup {[id |-> NextId(st), root |-> data.root, path |-> data.path,
                   size_bytes |-> data.size_bytes, mtime_ns |-> data.mtime_ns,
                   analysis |-> data.analysis, analyzed_at |-> data.analyzed_at]}

\* upsert_analysis, second statement: UPDATE ... WHERE id = existing, or INSERT.
UpsertWrite(st, existing, data) ==
    IF existing # 0
    THEN {IF r.id = existing
          THEN [r EXCEPT !.size_bytes = data.size_bytes,
                         !.mtime_ns = data.mtime_ns,
                         !.analysis = data.analysis,
                         !.analyzed_at = data.analyzed_at]
          ELSE r : r \in st}
    ELSE st \cup {[id |-> NextId(st), root |-> data.root, path |-> data.path,
                   size_bytes |-> data.size_bytes, mtime_ns |-> data.mtime_ns,
                   analysis |-> data.analysis, analyzed_at |-> data.analyzed_at]}

\* upsert_analysis on one connection with nothing interleaved.
upsert_analysis(st, data) ==
    UpsertWrite(st, SelectExisting(st, data.root, data.path), data)

\* get_all_analyses_for_root without the ordering: the rows of one root.
RowsOfRoot(st, root) == {r \in st : r.root = root}

\* The stored paths as SQLite holds them: TEXT, the bytes of the UTF-8 encoding.
\* "Q.jpg" occurs only in calls made on db.py directly (SpecStore).
StorePaths == Paths \cup {"Q.jpg"}
Utf8(path) ==
    IF path = "p.jpg" THEN <<112, 46, 106, 112, 103>>
    ELSE IF path = "q.jpg" THEN <<113, 46, 106, 112, 103>>
    ELSE <<81, 46, 106, 112, 103>>

\* The BINARY collation (the default of the path column): memcmp over the
\* common length, then the shorter value first.
Min(a, b) == IF a <= b THEN a ELSE b
RECURSIVE MemCmp(_, _, _, _)
MemCmp(a, b, k, n) ==
    IF k > n THEN 0
    ELSE IF a[k] < b[k] THEN -1
    ELSE IF a[k] > b[k] THEN 1
    ELSE MemCmp(a, b, k + 1, n)
BinaryCompare(a, b) ==
    LET c == MemCmp(a, b, 1, Min(Len(a), Len(b)))
    IN IF c # 0 THEN c
       ELSE IF Len(a) < Len(b) THEN -1
       ELSE IF Len(a) > Len(b) THEN 1
       ELSE 0

\* The orderings of a set of rows (no row twice).
RowOrderings(rows) ==
    {s \in [1..Cardinality(rows) -> rows] :
        \A i, j \in 1..Cardinality(rows) : i # j => s[i] # s[j]}

\* Mutant of get_all_analyses_for_root: no ORDER BY, the rows come in rowid order.
get_all_analyses_ByRowid(st, root) ==
    CHOOSE s \in RowOrderings({r \in st : r.root = root}) :
        \A i, j \in 1..Len(s) : i < j => s[i].id < s[j].id

\* get_all_analyses_for_root: SELECT * ... WHERE root = ? ORDER BY path, as a
\* list of rows.
get_all_analyses_for_root(st, root) ==
    CHOOSE s \in RowOrderings(RowsOfRoot(st, root)) :
        \A i, j \in 1..Len(s) :
            i < j => BinaryCompare(Utf8(s[i].path), Utf8(s[j].path)) <= 0

\* Mutant of delete_missing_files: the DELETE leaves out "root = ?".
delete_missing_files_AnyRoot(st, root, existing_paths) ==
    LET gone == {r.path : r \in {x \in st : x.root = root}} \ existing_paths
    IN [store |-> {r \in st : r.path \notin gone}, deleted |-> Cardinality(gone)]

\* delete_missing_files: the paths stored for root that are not in
\* existing_paths, the store without their rows, and the returned count.
PathsToDelete(st, root, existing_paths) ==
    {r.path : r \in RowsOfRoot(st, root)} \ existing_paths

delete_missing_files(st, root, existing_paths) ==
    [store |-> {r \in st : ~(r.root = root
                             /\ r.path \in PathsToDelete(st, root, existing_paths))},
     deleted |-> Cardinality(PathsToDelete(st, root, existing_paths))]

\* ------------------------------------------------------------- the scan
\* find_images: the entries os.walk lists as files under the root.
ScanSet(f, root) == {p \in Paths : f[root][p].kind # "absent"}

\* os.walk promises no order: every ordering of the listed paths.
Orderings(S) ==
    {s \in [1..Cardinality(S) -> S] : \A i, j \in 1..Cardinality(S) :
                                          i # j => s[i] # s[j]}

\* get_file_stats: os.stat succeeds on a regular file only.
StatOk(e) == e.kind = "file"

\* analyze_image: cv2.imread yields None (ValueError) unless the file decodes.
DecodeOk(e) == e.kind = "file" /\ e.img = "ok"
analyze_image(e) == e.img

\* ------------------------------------------------------- the categories
\* Scores are fixed-point numbers, one digit finer than analyze_image rounds
\* them to: a blur score counts thousandths, a center score hundred-thousandths.
BLUR_THRESHOLD_SHARP == 150000
BLUR_THRESHOLD_SOFT == 50000
CENTER_THRESHOLD_WELL == 15000
CENTER_THRESHOLD_SOMEWHAT == 35000

\* Mutant of categorize_blur: ">" where the code has ">=".
categorize_blur_Exclusive(blur_score) ==
    IF blur_score > BLUR_THRESHOLD_SHARP THEN "sharp"
    ELSE IF blur_score > BLUR_THRESHOLD_SOFT THEN "soft"
    ELSE "blurry"

\* categorize_blur, lines 102-107.
categorize_blur(blur_score) ==
    IF blur_score >= BLUR_THRESHOLD_SHARP THEN "sharp"
    ELSE IF blur_score >= BLUR_THRESHOLD_SOFT THEN "soft"
    ELSE "blurry"

\* Mutant of categorize_centering: "<" where the code has "<=".
categorize_centering_Exclusive(center_score) ==
    IF center_score < CENTER_THRESHOLD_WELL THEN "well_centered"
    ELSE IF center_score < CENTER_THRESHOLD_SOMEWHAT THEN "somewhat_centered"
    ELSE "off_center"

\* categorize_centering, lines 212-217.
categorize_centering(center_score) ==
    IF center_score <= CENTER_THRESHOLD_WELL THEN "well_centered"
    ELSE IF center_score <= CENTER_THRESHOLD_SOMEWHAT THEN "somewhat_centered"
    ELSE "off_center"

\* Mutant of ExitCode: main returns 0 whatever the error count.
ExitCode_AlwaysZero(stats) == 0

\* main's return value.
ExitCode(stats) == IF stats.errors = 0 THEN 0 ELSE 1

\* --summary-json: not given, given and the file written, or given and
\* write_summary_json raises (the output path cannot be opened for writing).
Exports == {"none", "written", "failed"}

\* Mutant of MainExit: an exception of write_summary_json is caught and ignored.
MainExit_IgnoresExportError(stats, export) == ExitCode(stats)

\* main, lines 300-306, and sys.exit(main()): write_summary_json is called
\* outside any try, so its exception ends the interpreter with status 1.
MainExit(stats, export) == IF export = "failed" THEN 1 ELSE ExitCode(stats)

\* ------------------------------------------------------------ the state
VARIABLES
    fs,       \* fs[root][path]: the directory entry
    store,    \* the committed rows of photo_analysis
    run,      \* the pipeline run in progress (process_images), or idle
    prev,     \* the last run that ended: root, force, exit code, run number, how it ended
    dirty,    \* the file system changed since the current/last run started
    nruns,    \* runs started
    nfsops,   \* file-system changes made
    conns,    \* SpecConc: each store connection's upsert_analysis call in progress
    lock,     \* SpecConc: the connection holding SQLite's write (RESERVED) lock
    reader,   \* SpecConc: what a third, read-only connection last read for a key
    an,       \* SpecAnalyze: the scores last categorized and their categories
    cv,       \* SpecImage: analysis.py's cascades (module globals), and its last call
    scan,     \* SpecScan: a directory tree, the accepted extensions, and what
              \* find_images yields for them
    out,      \* SpecExport: the summary file and the export writing it
    api       \* SpecStore: the last db.py call, its arguments, what it returned, and
              \* the rows its key had before

vars == <<fs, store, run, prev, dirty, nruns, nfsops, conns, lock, reader, an, cv, scan,
          out, api>>
connVars == <<conns, lock, reader>>
pipeVars == <<fs, run, prev, dirty, nruns, nfsops>>
sideVars == <<an, cv, scan, out, api>>

ConnIds == {"c1", "c2"}
NoData == [root |-> "", path |-> "", size_bytes |-> 0, mtime_ns |-> 0,
           analysis |-> "none", analyzed_at |-> 0]
IdleConn == [pc |-> "idle", data |-> NoData, existing |-> 0, tx |-> {}, calls |-> 0]
NoRead == [root |-> "", path |-> "", rows |-> {}, during |-> "none"]
NoScores == [blur_score |-> 0, blur_category |-> "none",
             center_score |-> 0, center_category |-> "none"]
NoBox == [x |-> 0, y |-> 0, w |-> 0, h |-> 0]
NoDict == [width |-> 0, height |-> 0, blur_score |-> 0, blur_category |-> "none",
           has_person |-> FALSE, has_pet |-> FALSE,
           center_score |-> 0, center_category |-> "none"]
NoResult == [op |-> "none", faces |-> <<>>, cats |-> <<>>, largest |-> NoBox,
             raw_blur |-> 0, raw_center |-> 0, dict |-> NoDict]
NoImage == [width |-> 0, height |-> 0, blur |-> 0, faces |-> <<>>, cats |-> <<>>]
\* The cascade files the process finds and the image it is given, the two
\* module globals (none: None, loaded, or empty: a classifier whose empty()
\* is true), how often each was loaded and how often its load warning was
\* logged, and the calls made.
NoCascades(files) ==
    [files |-> files, image |-> NoImage, face |-> "none", cat |-> "none",
     face_loads |-> 0, cat_loads |-> 0, face_warnings |-> 0, cat_warnings |-> 0,
     calls |-> 0, last |-> NoResult]
NoCv == NoCascades([face |-> TRUE, cat_extended |-> TRUE, cat |-> TRUE])
\* Nothing scanned: names are sequences of characters, a tree is the set of
\* its files, each the sequence of names leading to it from the root.
NoScan == [pc |-> "none", input_dir |-> "", root |-> "", tree |-> {},
           extensions_str |-> <<>>, extensions |-> {}, images |-> <<>>,
           visited |-> {}]
\* No export: the summary file, before the export and now, holds the chunks
\* of a JSON document; document is what the export is writing.
NoFile == [exists |-> FALSE, content |-> <<>>]
NoOut == [pc |-> "none", root |-> "", before |-> NoFile, file |-> NoFile,
          document |-> <<>>]
NoCall == [op |-> "none", data |-> NoData, row |-> NoRow, list |-> <<>>,
           before |-> {}, n |-> 0]

ZeroStats == [total |-> 0, analyzed |-> 0, cached |-> 0, errors |-> 0, deleted |-> 0]

IdleRun == [pc |-> "idle", input_dir |-> "", dir |-> "", root |-> "", force |-> FALSE, images |-> <<>>, i |-> 0,
            existing_paths |-> {}, stats |-> ZeroStats,
            fp |-> <<0, 0>>, conn |-> "none",
            log |-> <<>>, storeStart |-> {}, cleanPrev |-> FALSE]

NoPrev == [input_dir |-> "", root |-> "", force |-> FALSE, exit |-> 0, n |-> 0,
           how |-> "none", upserted |-> {},
           errors |-> 0, summary |-> FALSE, export |-> "none",
           kind |-> "none", init_db |-> FALSE]

Init ==
    /\ fs \in InitialFs
    /\ store = {}
    /\ run = IdleRun
    /\ prev = NoPrev
    /\ dirty = FALSE
    /\ nruns = 0
    /\ nfsops = 0
    /\ conns = [c \in ConnIds |-> IdleConn]
    /\ lock = "none"
    /\ reader = NoRead
    /\ an = NoScores
    /\ cv = NoCv
    /\ scan = NoScan
    /\ out = NoOut
    /\ api = NoCall

\* ----------------------------------------------------- the environment
\* What one change makes of a directory entry: a missing path is created (a
\* file with the first fingerprint, decodable or not, or a dangling link); a
\* file is touched, resized, rewritten with other pixels, or removed; a
\* dangling link is removed.
Other(S, x) == CHOOSE y \in S : y # x
Changes(e) ==
    IF e.kind = "absent"
    THEN {FirstFile, CorruptFile, Dangling}
    ELSE IF e.kind = "dangling" THEN {Absent}
    ELSE {[e EXCEPT !.mtime = Other(Mtimes, e.mtime)],
          [e EXCEPT !.size = Other(Sizes, e.size)],
          [e EXCEPT !.img = Other({"ok", "corrupt"}, e.img)],
          [e EXCEPT !.size = Other(Sizes, e.size), !.img = "corrupt"],
          Absent}

\* The directory changes between runs (the tool is run by one user, one
\* process at a time). Changes before the first run are covered by InitialFs
\* and changes after the last run are seen by no run.
FsChange(root, path, e) ==
    /\ run.pc = "idle"
    /\ nfsops < MaxFsOps
    /\ 1 <= nruns /\ nruns < MaxRuns
    /\ path \in PathsOf(root)
    /\ e \in Changes(fs[root][path])
    /\ fs' = [fs EXCEPT ![root][path] = e]
    /\ dirty' = TRUE
    /\ nfsops' = nfsops + 1
    /\ UNCHANGED <<store, run, prev, nruns, connVars, sideVars>>

\* ------------------------------------------------------- process_images
Event(op, path, res) == [op |-> op, path |-> path, res |-> res]

\* Mutant of StartPc: no early return on an empty scan.
StartPc_NoEarlyReturn(images) == "loop"

\* Mutant of CacheLookup: the cache is consulted even when force is set.
CacheLookup_IgnoresForce(force, st, root, path, size_bytes, mtime_ns) ==
    [consulted |-> TRUE,
     row |-> get_cached_analysis(st, root, path, size_bytes, mtime_ns)]

\* Mutant of AfterError: the handler sits outside the loop and ends it.
AfterError_EndsLoop(i, n) == n + 1

\* Lines 201-203: "except Exception" sits inside the for loop: the error is
\* counted and the loop goes on with the next entry.
AfterError(i, n) == i + 1

\* Mutant of Seen: the path is noted inside the try, after the stat.
Seen_AfterStat(existing_paths, rel_path, statOk) ==
    IF statOk THEN existing_paths \cup {rel_path} ELSE existing_paths

\* Line 159: existing_paths.add(rel_path) precedes the try, so the path is
\* noted whether or not the entry can be processed.
Seen(existing_paths, rel_path, statOk) == existing_paths \cup {rel_path}

\* Mutant of InitialStats: total is left at zero.
InitialStats_NoTotal(total_images) == ZeroStats

\* Lines 138-144 (and 127-133 when nothing was found): the counters a run
\* starts with.
InitialStats(total_images) == [ZeroStats EXCEPT !.total = total_images]

\* Lines 125-133: with no image found process_images returns at once.
StartPc(images) == IF Len(images) = 0 THEN "done" ELSE "loop"

\* Lines 166-167: the cache is consulted unless force is set.
CacheLookup(force, st, root, path, size_bytes, mtime_ns) ==
    IF force
    THEN [consulted |-> FALSE, row |-> NoRow]
    ELSE [consulted |-> TRUE,
          row |-> get_cached_analysis(st, root, path, size_bytes, mtime_ns)]

\* Mutant of OnCacheHit: a hit refreshes the record's analyzed_at.
OnCacheHit_Touches(st, row) ==
    (st \ {row}) \cup {[row EXCEPT !.analyzed_at = @ + 1]}

\* Lines 168-172: on a hit the counter is incremented and the loop continues;
\* nothing is written to the store.
OnCacheHit(st, row) == st

\* Lines 118-133: init_db opens the connection; the zero-file early return
\* does not close it.  The connection is then unreachable, and whether it has
\* been finalized by the time main goes on is up to the interpreter's
\* garbage collection.
ConnAfterScan(images) ==
    IF Len(images) = 0 THEN {"open", "finalized"} ELSE {"open"}

\* Lines 114-156: resolve the root, init_db, scan; the zero-file early return.
StartRun(input_dir, force, images) ==
    /\ run.pc = "idle"
    /\ nruns < MaxRuns
    /\ images \in Orderings(ScanSet(fs, KernelDir(input_dir)))
    /\ \E conn \in ConnAfterScan(images) :
        run' = [pc |-> StartPc(images),
               input_dir |-> input_dir, dir |-> KernelDir(input_dir),
               root |-> ResolveRoot(input_dir),
               force |-> force, images |-> images, i |-> 1,
               existing_paths |-> {},
               stats |-> InitialStats(Len(images)),
               fp |-> <<0, 0>>, conn |-> conn,
               log |-> <<>>, storeStart |-> store,
               cleanPrev |-> (prev.n > 0 /\ ~dirty)]
    /\ dirty' = FALSE
    /\ nruns' = nruns + 1
    /\ UNCHANGED <<fs, store, prev, nfsops, connVars, sideVars>>

\* Lines 158-172: take the next entry, note its path, stat it, consult the cache.
StatLookup ==
    /\ run.pc = "loop"
    /\ run.i <= Len(run.images)
    /\ LET p == run.images[run.i]
           e == fs[run.dir][p]
           c == CacheLookup(run.force, store, run.root, p, e.size, e.mtime)
           seen == Seen(run.existing_paths, p, StatOk(e))
           looked == IF c.consulted
                     THEN <<Event("lookup", p, IF c.row # NoRow THEN "hit" ELSE "miss")>>
                     ELSE <<>>
       IN IF ~StatOk(e)
          THEN /\ run' = [run EXCEPT !.existing_paths = seen,
                                     !.stats.errors = @ + 1,
                                     !.i = AfterError(run.i, Len(run.images)),
                                     !.log = Append(@, Event("stat", p, "error"))]
               /\ store' = store
          ELSE IF c.row # NoRow
          THEN /\ run' = [run EXCEPT !.existing_paths = seen,
                                     !.stats.cached = @ + 1,
                                     !.i = @ + 1,
                                     !.fp = <<e.size, e.mtime>>,
                                     !.log = @ \o <<Event("stat", p, "ok")>> \o looked]
               /\ store' = OnCacheHit(store, c.row)
          ELSE /\ run' = [run EXCEPT !.existing_paths = seen,
                                     !.pc = "analyze",
                                     !.fp = <<e.size, e.mtime>>,
                                     !.log = @ \o <<Event("stat", p, "ok")>> \o looked]
               /\ store' = store
    /\ UNCHANGED <<fs, prev, dirty, nruns, nfsops, connVars, sideVars>>

\* Lines 174-203: analyze the image, build the record, upsert it.
AnalyzeUpsert ==
    /\ run.pc = "analyze"
    /\ LET p == run.images[run.i]
           e == fs[run.dir][p]
           record == [root |-> run.root, path |-> p,
                      size_bytes |-> run.fp[1], mtime_ns |-> run.fp[2],
                      analysis |-> analyze_image(e), analyzed_at |-> nruns]
       IN IF ~DecodeOk(e)
          THEN /\ run' = [run EXCEPT !.pc = "loop",
                                     !.stats.errors = @ + 1,
                                     !.i = AfterError(run.i, Len(run.images)),
                                     !.log = Append(@, Event("analyze", p, "error"))]
               /\ store' = store
          ELSE /\ run' = [run EXCEPT !.pc = "loop",
                                     !.stats.analyzed = @ + 1,
                                     !.i = @ + 1,
                                     !.log = @ \o <<Event("analyze", p, "ok"),
                                                    Event("upsert", p, "ok")>>]
               /\ store' = upsert_analysis(store, record)
    /\ UNCHANGED <<fs, prev, dirty, nruns, nfsops, connVars, sideVars>>

\* Lines 205-212: delete_missing_files, close the connection, return the stats.
Reconcile ==
    /\ run.pc = "loop"
    /\ run.i > Len(run.images)
    /\ LET d == delete_missing_files(store, run.root, run.existing_paths)
       IN /\ store' = d.store
          /\ run' = [run EXCEPT !.pc = "done",
                                !.stats.deleted = d.deleted,
                                !.conn = "closed",
                                !.log = Append(@, Event("reconcile", "", "ok"))]
    /\ UNCHANGED <<fs, prev, dirty, nruns, nfsops, connVars, sideVars>>

\* main, lines 289-306: the summary is printed, the JSON summary written if
\* asked for, and the exit code returned.
Finish(export) ==
    /\ run.pc = "done"
    /\ prev' = [input_dir |-> run.input_dir, root |-> run.root, force |-> run.force,
                exit |-> MainExit(run.stats, export), n |-> nruns,
                how |-> "finished", upserted |-> {},
                errors |-> run.stats.errors, summary |-> TRUE, export |-> export,
                kind |-> "dir", init_db |-> TRUE]
    /\ run' = IdleRun
    /\ UNCHANGED <<fs, store, dirty, nruns, nfsops, connVars, sideVars>>

Next ==
    \/ \E root \in Roots, path \in Paths, e \in Entries : FsChange(root, path, e)
    \/ \E root \in Roots, force \in BOOLEAN :
          \E images \in Orderings(ScanSet(fs, root)) : StartRun(root, force, images)
    \/ StatLookup
    \/ AnalyzeUpsert
    \/ Reconcile
    \/ Finish("none")

Spec == Init /\ [][Next]_vars

\* ------------------------------------------ main, invocation by invocation
\* Mutant of CommittedAtCrash: one commit at the end of the run instead of one
\* per upsert.
CommittedAtCrash_OnlyAtStart(start, current) == start

\* db.py line 167: upsert_analysis commits before it returns, so what a run
\* has written so far is what the database file holds when the process dies.
CommittedAtCrash(start, current) == current

\* The paths the run in progress has upserted.
Upserted == {run.images[k] : k \in {j \in 1..Len(run.images) :
                \E n \in 1..Len(run.log) : run.log[n] = Event("upsert", run.images[j], "ok")}}

\* The process ends abnormally while entries are processed (killed, power
\* loss, KeyboardInterrupt: nothing "except Exception" catches): no reconcile,
\* no summary, and the store is what was committed.
Crash ==
    /\ run.pc \in {"loop", "analyze"}
    /\ store' = CommittedAtCrash(run.storeStart, store)
    /\ prev' = [input_dir |-> run.input_dir, root |-> run.root, force |-> run.force, exit |-> 1, n |-> nruns,
                how |-> "crashed", upserted |-> Upserted,
                errors |-> 0, summary |-> FALSE, export |-> "none",
                kind |-> "dir", init_db |-> TRUE]
    /\ run' = IdleRun
    /\ UNCHANGED <<fs, dirty, nruns, nfsops, connVars, sideVars>>

\* What the input path is when main is called: a directory, nothing, or
\* something that is not a directory.
RootKinds == {"dir", "missing", "notdir"}

\* Mutant of MainOutcome: main lacks the is_dir() check, so process_images runs
\* on a path that is no directory: init_db, an empty os.walk, the early return.
MainOutcome_NoDirCheck(kind, dbOk) ==
    IF kind = "missing"
    THEN [exit |-> 1, summary |-> FALSE, init_db |-> FALSE]
    ELSE IF ~dbOk
    THEN [exit |-> 1, summary |-> FALSE, init_db |-> TRUE]
    ELSE [exit |-> 0, summary |-> TRUE, init_db |-> TRUE]

\* main, lines 262-287, for an invocation that does not get to the loop:
\* exists() and is_dir() fail before process_images is called; init_db raises
\* inside process_images and main's "except Exception" returns 1.
MainOutcome(kind, dbOk) ==
    IF kind = "missing"
    THEN [exit |-> 1, summary |-> FALSE, init_db |-> FALSE]
    ELSE IF kind = "notdir"
    THEN [exit |-> 1, summary |-> FALSE, init_db |-> FALSE]
    ELSE IF ~dbOk
    THEN [exit |-> 1, summary |-> FALSE, init_db |-> TRUE]
    ELSE [exit |-> 0, summary |-> TRUE, init_db |-> TRUE]

\* main called on a path that is no directory (nothing is listed under it),
\* or with a database that cannot be opened.
MainEarly(input_dir, force, kind, dbOk) ==
    /\ run.pc = "idle"
    /\ nruns < MaxRuns
    /\ kind # "dir" \/ ~dbOk
    /\ kind # "dir" => ScanSet(fs, KernelDir(input_dir)) = {}
    /\ LET o == MainOutcome(kind, dbOk)
       IN prev' = [input_dir |-> input_dir, root |-> "", force |-> force, exit |-> o.exit, n |-> nruns + 1,
                   how |-> "fatal", upserted |-> {},
                   errors |-> 0, summary |-> o.summary, export |-> "none",
                   kind |-> kind, init_db |-> o.init_db]
    /\ nruns' = nruns + 1
    /\ UNCHANGED <<fs, store, run, dirty, nfsops, connVars, sideVars>>

\* The directories the invocations of main start from: "/a" holds the files, "/b" none.
InitMain ==
    /\ fs \in {f \in InitialFs : \A p \in Paths : f["/b"][p] = Absent}
    /\ store = {}
    /\ run = IdleRun
    /\ prev = NoPrev
    /\ dirty = FALSE
    /\ nruns = 0
    /\ nfsops = 0
    /\ conns = [c \in ConnIds |-> IdleConn]
    /\ lock = "none"
    /\ reader = NoRead
    /\ an = NoScores
    /\ cv = NoCv
    /\ scan = NoScan
    /\ out = NoOut
    /\ api = NoCall

NextMain ==
    \/ \E input_dir \in InputDirs, force \in BOOLEAN :
          \E images \in Orderings(ScanSet(fs, KernelDir(input_dir))) :
             StartRun(input_dir, force, images)
    \/ StatLookup
    \/ AnalyzeUpsert
    \/ Reconcile
    \/ \E export \in Exports : Finish(export)
    \/ Crash
    \/ \E input_dir \in InputDirs, force \in BOOLEAN, kind \in RootKinds,
          dbOk \in BOOLEAN : MainEarly(input_dir, force, kind, dbOk)

SpecMain == InitMain /\ [][NextMain]_vars

\* ------------------------------------- upsert_analysis on two connections
\* The records the two connections upsert: one root, both paths, and two
\* contents that differ in every column.
UpsertData ==
    [root : {"/a"}, path : Paths, size_bytes : {10}, mtime_ns : {100},
     analysis : {"ok"}, analyzed_at : {1}]
    \cup [root : {"/a"}, path : Paths, size_bytes : {20}, mtime_ns : {200},
          analysis : {"other"}, analyzed_at : {2}]

\* The stores the connections start from: empty, or one row for "p.jpg".
InitialStores ==
    {{}, {[id |-> 1, root |-> "/a", path |-> "p.jpg", size_bytes |-> 10,
           mtime_ns |-> 100, analysis |-> "ok", analyzed_at |-> 1]}}

\* Lines 96-105: the SELECT runs in autocommit mode (sqlite3 opens a
\* transaction only before INSERT/UPDATE/DELETE) and sees the committed rows.
ConnSelect(c, data) ==
    /\ conns[c].pc = "idle"
    /\ conns[c].calls < MaxUpserts
    /\ conns' = [conns EXCEPT ![c] = [@ EXCEPT !.pc = "write", !.data = data,
                     !.existing = SelectExisting(store, data.root, data.path)]]
    /\ UNCHANGED <<store, lock, reader, pipeVars, sideVars>>

\* Mutant of ConnWrite: the connection is in autocommit mode and the UPDATE is
\* split in two statements, so the new size_bytes is published before the rest.
ConnWrite_SplitUpdate(c) ==
    /\ conns[c].pc = "write"
    /\ lock = "none"
    /\ lock' = c
    /\ conns' = [conns EXCEPT ![c] = [@ EXCEPT !.pc = "commit",
                     !.tx = UpsertWrite(store, conns[c].existing, conns[c].data)]]
    /\ store' = {IF r.id = conns[c].existing
                 THEN [r EXCEPT !.size_bytes = conns[c].data.size_bytes]
                 ELSE r : r \in store}
    /\ UNCHANGED <<reader, pipeVars, sideVars>>

\* Lines 107-166: the UPDATE or INSERT opens a transaction and takes the write
\* lock; the change stays private to the connection until it commits.
ConnWrite(c) ==
    /\ conns[c].pc = "write"
    /\ lock = "none"
    /\ lock' = c
    /\ conns' = [conns EXCEPT ![c] = [@ EXCEPT !.pc = "commit",
                     !.tx = UpsertWrite(store, conns[c].existing, conns[c].data)]]
    /\ UNCHANGED <<store, reader, pipeVars, sideVars>>

\* Lines 107-166 while the other connection holds the write lock: after the
\* busy timeout execute() raises OperationalError and upsert_analysis ends.
ConnBusy(c) ==
    /\ conns[c].pc = "write"
    /\ lock \notin {"none", c}
    /\ conns' = [conns EXCEPT ![c] = [IdleConn EXCEPT !.calls = conns[c].calls + 1]]
    /\ UNCHANGED <<store, lock, reader, pipeVars, sideVars>>

\* Line 167: conn.commit() publishes the connection's change.
ConnCommit(c) ==
    /\ conns[c].pc = "commit"
    /\ lock = c
    /\ store' = conns[c].tx
    /\ lock' = "none"
    /\ conns' = [conns EXCEPT ![c] = [IdleConn EXCEPT !.calls = conns[c].calls + 1]]
    /\ UNCHANGED <<reader, pipeVars, sideVars>>

\* get_cached_analysis / get_all_analyses_for_root on a third connection: a
\* SELECT sees the committed rows, whatever the writers have pending.
ReaderSelect(root, path) ==
    /\ reader' = [root |-> root, path |-> path, rows |-> RowsFor(store, root, path),
                  during |-> lock]
    /\ UNCHANGED <<store, conns, lock, pipeVars, sideVars>>

InitConc ==
    /\ fs = [r \in Roots |-> [p \in Paths |-> Absent]]
    /\ store \in InitialStores
    /\ run = IdleRun
    /\ prev = NoPrev
    /\ dirty = FALSE
    /\ nruns = 0
    /\ nfsops = 0
    /\ conns = [c \in ConnIds |-> IdleConn]
    /\ lock = "none"
    /\ reader = NoRead
    /\ an = NoScores
    /\ cv = NoCv
    /\ scan = NoScan
    /\ out = NoOut
    /\ api = NoCall

NextConc ==
    \/ \E c \in ConnIds, data \in UpsertData : ConnSelect(c, data)
    \/ \E c \in ConnIds : ConnWrite(c)
    \/ \E c \in ConnIds : ConnBusy(c)
    \/ \E c \in ConnIds : ConnCommit(c)
    \/ \E path \in Paths : ReaderSelect("/a", path)

SpecConc == InitConc /\ [][NextConc]_vars

\* ------------------------------------------- analysis.py called directly
\* The scores tried: zero, the values within MaxDelta units of a threshold,
\* and the values one rounded digit (ten units) away from it.
Around(t) == {x \in (t - MaxDelta)..(t + MaxDelta) : x >= 0} \cup {t - 10, t + 10}
BlurScores == {0} \cup Around(BLUR_THRESHOLD_SOFT) \cup Around(BLUR_THRESHOLD_SHARP)
CenterScores ==
    {0} \cup Around(CENTER_THRESHOLD_WELL) \cup Around(CENTER_THRESHOLD_SOMEWHAT)

CategorizeBlur(blur_score) ==
    /\ an' = [an EXCEPT !.blur_score = blur_score,
                        !.blur_category = categorize_blur(blur_score)]
    /\ UNCHANGED <<store, pipeVars, connVars, cv, scan, out, api>>

CategorizeCentering(center_score) ==
    /\ an' = [an EXCEPT !.center_score = center_score,
                        !.center_category = categorize_centering(center_score)]
    /\ UNCHANGED <<store, pipeVars, connVars, cv, scan, out, api>>

InitAnalyze ==
    /\ fs = [r \in Roots |-> [p \in Paths |-> Absent]]
    /\ store = {}
    /\ run = IdleRun
    /\ prev = NoPrev
    /\ dirty = FALSE
    /\ nruns = 0
    /\ nfsops = 0
    /\ conns = [c \in ConnIds |-> IdleConn]
    /\ lock = "none"
    /\ reader = NoRead
    /\ an = NoScores
    /\ cv = NoCv
    /\ scan = NoScan
    /\ out = NoOut
    /\ api = NoCall

NextAnalyze ==
    \/ \E blur_score \in BlurScores : CategorizeBlur(blur_score)
    \/ \E center_score \in CenterScores : CategorizeCentering(center_score)

SpecAnalyze == InitAnalyze /\ [][NextAnalyze]_vars

\* ------------------------------------------------- db.py called directly
\* The records upserted: every (root, path), with one of two contents that
\* differ in every column, stamped with the call's number.
StoreData ==
    [root : Roots, path : StorePaths, size_bytes : {10}, mtime_ns : {100},
     analysis : {"ok"}, analyzed_at : {api.n + 1}]
    \cup [root : Roots, path : StorePaths, size_bytes : {20}, mtime_ns : {200},
          analysis : {"other"}, analyzed_at : {api.n + 1}]

\* upsert_analysis(conn, data).
ApiUpsert(data) ==
    /\ api.n < MaxStoreOps
    /\ store' = upsert_analysis(store, data)
    /\ api' = [op |-> "upsert", data |-> data, row |-> NoRow, list |-> <<>>,
               before |-> RowsFor(store, data.root, data.path), n |-> api.n + 1]
    /\ UNCHANGED <<pipeVars, connVars, an, cv, scan, out>>

\* get_cached_analysis(conn, root, path, size_bytes, mtime_ns).
ApiLookup(root, path, size_bytes, mtime_ns) ==
    /\ api' = [op |-> "lookup",
               data |-> [NoData EXCEPT !.root = root, !.path = path,
                                       !.size_bytes = size_bytes,
                                       !.mtime_ns = mtime_ns],
               row |-> get_cached_analysis(store, root, path, size_bytes, mtime_ns),
               list |-> <<>>, before |-> {}, n |-> api.n]
    /\ UNCHANGED <<store, pipeVars, connVars, an, cv, scan, out>>

\* delete_missing_files(conn, root, existing_paths).
ApiDelete(root, existing_paths) ==
    /\ api.n < MaxStoreOps
    /\ store' = delete_missing_files(store, root, existing_paths).store
    /\ api' = [op |-> "delete", data |-> [NoData EXCEPT !.root = root],
               row |-> NoRow, list |-> <<>>, before |-> {}, n |-> api.n + 1]
    /\ UNCHANGED <<pipeVars, connVars, an, cv, scan, out>>

\* get_all_analyses_for_root(conn, root).
ApiList(root) ==
    /\ api' = [op |-> "list", data |-> [NoData EXCEPT !.root = root],
               row |-> NoRow, list |-> get_all_analyses_for_root(store, root),
               before |-> {}, n |-> api.n]
    /\ UNCHANGED <<store, pipeVars, connVars, an, cv, scan, out>>

NextStore ==
    \/ \E data \in StoreData : ApiUpsert(data)
    \/ \E root \in Roots, path \in Paths, size_bytes \in Sizes, mtime_ns \in Mtimes :
          ApiLookup(root, path, size_bytes, mtime_ns)
    \/ \E root \in Roots, existing_paths \in SUBSET Paths :
          ApiDelete(root, existing_paths)
    \/ \E root \in Roots : ApiList(root)

\* init_db on a new database file: the schema and no row.
InitStore ==
    /\ fs = [r \in Roots |-> [p \in Paths |-> Absent]]
    /\ store = {}
    /\ run = IdleRun
    /\ prev = NoPrev
    /\ dirty = FALSE
    /\ nruns = 0
    /\ nfsops = 0
    /\ conns = [c \in ConnIds |-> IdleConn]
    /\ lock = "none"
    /\ reader = NoRead
    /\ an = NoScores
    /\ cv = NoCv
    /\ scan = NoScan
    /\ out = NoOut
    /\ api = NoCall

SpecStore == InitStore /\ [][NextStore]_vars

\* ------------------------------------------- analyze_image and the cascades
\* What the process is given: the cascade files that exist and an image to
\* work on.  An image is its size, the variance of its
\* Laplacian (in thousandths) and the boxes each cascade finds in it when the
\* cascade is loaded.  Boxes lie inside the smaller image, hence inside both.
ImageSizes == {[width |-> 1000, height |-> 1000], [width |-> 1000, height |-> 500]}
Boxes == {[x |-> 350, y |-> 100, w |-> 300, h |-> 300],
          [x |-> 0, y |-> 0, w |-> 300, h |-> 300],
          [x |-> 600, y |-> 200, w |-> 100, h |-> 101]}
RECURSIVE SeqsUpTo(_, _)
SeqsUpTo(S, n) ==
    IF n = 0 THEN {<<>>}
    ELSE LET shorter == SeqsUpTo(S, n - 1)
         IN shorter \cup {Append(s, b) : s \in shorter, b \in S}
BoxLists == SeqsUpTo(Boxes, MaxBoxes)
ImageBlurs == {t - d : t \in {BLUR_THRESHOLD_SHARP, BLUR_THRESHOLD_SOFT},
                       d \in {0, MaxDelta + 1}}
Images ==
    {[width |-> s.width, height |-> s.height, blur |-> b, faces |-> <<>>, cats |-> <<>>] :
        s \in ImageSizes, b \in ImageBlurs}
    \cup {[width |-> s.width, height |-> s.height, blur |-> BLUR_THRESHOLD_SHARP,
           faces |-> f, cats |-> c] :
        s \in ImageSizes, f \in BoxLists, c \in BoxLists}
CascadeFiles == [face : BOOLEAN, cat_extended : BOOLEAN, cat : BOOLEAN]

\* _load_cascades: each global is constructed only while it is None; a
\* classifier constructed from a missing file is empty, not None.
load_cascades_RetriesEmpty(c) ==
    LET f == IF c.face \in {"none", "empty"}
             THEN [c EXCEPT !.face = IF c.files.face THEN "loaded" ELSE "empty",
                            !.face_loads = @ + 1,
                            !.face_warnings = @ + (IF c.files.face THEN 0 ELSE 1)]
             ELSE c
        catOk == f.files.cat_extended \/ f.files.cat
    IN IF f.cat \in {"none", "empty"}
       THEN [f EXCEPT !.cat = IF catOk THEN "loaded" ELSE "empty",
                      !.cat_loads = @ + 1,
                      !.cat_warnings = @ + (IF catOk THEN 0 ELSE 1)]
       ELSE f
load_cascades(c) ==
    LET f == IF c.face = "none"
             THEN [c EXCEPT !.face = IF c.files.face THEN "loaded" ELSE "empty",
                            !.face_loads = @ + 1,
                            !.face_warnings = @ + (IF c.files.face THEN 0 ELSE 1)]
             ELSE c
        catOk == f.files.cat_extended \/ f.files.cat
    IN IF f.cat = "none"
       THEN [f EXCEPT !.cat = IF catOk THEN "loaded" ELSE "empty",
                      !.cat_loads = @ + 1,
                      !.cat_warnings = @ + (IF catOk THEN 0 ELSE 1)]
       ELSE f

\* detect_faces and detect_cat_faces after _load_cascades.
detect_faces(c, image) == IF c.face # "loaded" THEN <<>> ELSE image.faces
detect_cat_faces(c, image) == IF c.cat # "loaded" THEN <<>> ELSE image.cats

Area(d) == d.w * d.h
\* max(detections, key = w * h) returns the first of the largest.
get_largest_detection_Last(detections) ==
    IF Len(detections) = 0 THEN NoBox
    ELSE detections[CHOOSE i \in 1..Len(detections) :
            /\ \A j \in 1..Len(detections) : Area(detections[j]) <= Area(detections[i])
            /\ \A j \in (i + 1)..Len(detections) : Area(detections[j]) < Area(detections[i])]
get_largest_detection(detections) ==
    IF Len(detections) = 0 THEN NoBox
    ELSE detections[CHOOSE i \in 1..Len(detections) :
            /\ \A j \in 1..Len(detections) : Area(detections[j]) <= Area(detections[i])
            /\ \A j \in 1..(i - 1) : Area(detections[j]) < Area(detections[i])]

RECURSIVE Gcd(_, _)
Gcd(a, b) == IF b = 0 THEN a ELSE Gcd(b, a % b)
Lcm(a, b) == (a * b) \div Gcd(a, b)
\* The integer part of a square root, by bisection.
RECURSIVE ISqrt(_, _, _)
ISqrt(lo, hi, n) ==
    IF lo >= hi THEN lo
    ELSE LET mid == (lo + hi + 1) \div 2
         IN IF mid * mid <= n THEN ISqrt(mid, hi, n) ELSE ISqrt(lo, mid - 1, n)
\* n further decimal digits of the square root whose integer part is p with
\* remainder r (the schoolbook method): the floor of 10^n times the root.
RECURSIVE SqrtDigits(_, _, _)
SqrtDigits(p, r, n) ==
    IF n = 0 THEN p
    ELSE LET d == CHOOSE k \in 0..9 :
                    /\ (20 * p + k) * k <= 100 * r
                    /\ k < 9 => (20 * p + k + 1) * (k + 1) > 100 * r
         IN SqrtDigits(10 * p + d, 100 * r - (20 * p + d) * d, n - 1)
\* calculate_center_score: sqrt(dx^2 + dy^2) with dx = (x + w/2 - W/2) / W and
\* dy = (y + h/2 - H/2) / H, in hundred-thousandths rounded up, so that
\* score <= threshold is decided as it is for the exact value.  Over the
\* common denominator L the score is sqrt(a^2 + b^2) / L.
calculate_center_score(bbox, W, H) ==
    LET L == 2 * Lcm(W, H)
        a == (2 * bbox.x + bbox.w - W) * (L \div (2 * W))
        b == (2 * bbox.y + bbox.h - H) * (L \div (2 * H))
        m == a * a + b * b
        k == ISqrt(0, L, m)
        p == SqrtDigits(k, m - k * k, 5)
    IN IF k * k = m THEN (p + L - 1) \div L ELSE (p \div L) + 1

\* round(score, digits) drops the last digit of the fixed-point score; what
\* Python does with a score on the tie depends on the double nearest to it.
Ties(raw) == IF raw % 10 = 5 THEN BOOLEAN ELSE {FALSE}
Round(raw, up) ==
    LET q == raw \div 10
        r == raw % 10
    IN IF r > 5 \/ (r = 5 /\ up) THEN 10 * (q + 1) ELSE 10 * q

\* The centering score analyze_image computes from the detections: that of
\* the largest one, and 0.0 when there is none.
center_score_of_NoDefault(all_detections, W, H) ==
    calculate_center_score(get_largest_detection(all_detections), W, H)
center_score_of(all_detections, W, H) ==
    IF Len(all_detections) > 0
    THEN calculate_center_score(get_largest_detection(all_detections), W, H)
    ELSE 0

\* analyze_image with the cascades c (already loaded): the categories are taken
\* from the scores before they are rounded.
analyze_image_result(c, image, upBlur, upCenter) ==
    LET blur_score == image.blur
        faces == detect_faces(c, image)
        cats == detect_cat_faces(c, image)
        all_detections == faces \o cats
        largest == get_largest_detection(all_detections)
        center_score == center_score_of(all_detections, image.width, image.height)
    IN [op |-> "analyze_image", faces |-> faces, cats |-> cats, largest |-> largest,
        raw_blur |-> blur_score, raw_center |-> center_score,
        dict |-> [width |-> image.width, height |-> image.height,
                  blur_score |-> Round(blur_score, upBlur),
                  blur_category |-> categorize_blur(blur_score),
                  has_person |-> Len(faces) > 0,
                  has_pet |-> Len(cats) > 0,
                  center_score |-> Round(center_score, upCenter),
                  center_category |-> categorize_centering(center_score)]]

imageFrame == <<fs, store, run, prev, dirty, nruns, nfsops, conns, lock, reader, an, scan,
                out, api>>

DetectFaces ==
    /\ cv.calls < MaxCalls
    /\ LET c == load_cascades(cv)
       IN cv' = [c EXCEPT !.calls = @ + 1,
                          !.last = [NoResult EXCEPT !.op = "detect_faces",
                                                    !.faces = detect_faces(c, cv.image)]]
    /\ UNCHANGED imageFrame

DetectCatFaces ==
    /\ cv.calls < MaxCalls
    /\ LET c == load_cascades(cv)
       IN cv' = [c EXCEPT !.calls = @ + 1,
                          !.last = [NoResult EXCEPT !.op = "detect_cat_faces",
                                                    !.cats = detect_cat_faces(c, cv.image)]]
    /\ UNCHANGED imageFrame

AnalyzeImage ==
    /\ cv.calls < MaxCalls
    /\ LET c == load_cascades(cv)
       IN \E upBlur \in Ties(cv.image.blur) :
            LET r == analyze_image_result(c, cv.image, upBlur, FALSE)
            IN \E upCenter \in Ties(r.raw_center) :
                 cv' = [c EXCEPT !.calls = @ + 1,
                                 !.last = analyze_image_result(c, cv.image, upBlur, upCenter)]
    /\ UNCHANGED imageFrame

InitImage ==
    /\ fs = [r \in Roots |-> [p \in Paths |-> Absent]]
    /\ store = {}
    /\ run = IdleRun
    /\ prev = NoPrev
    /\ dirty = FALSE
    /\ nruns = 0
    /\ nfsops = 0
    /\ conns = [c \in ConnIds |-> IdleConn]
    /\ lock = "none"
    /\ reader = NoRead
    /\ an = NoScores
    /\ api = NoCall
    /\ scan = NoScan
    /\ out = NoOut
    /\ \E files \in CascadeFiles, image \in Images :
           cv = [NoCascades(files) EXCEPT !.image = image]

NextImage == DetectFaces \/ DetectCatFaces \/ AnalyzeImage

SpecImage == InitImage /\ [][NextImage]_vars

\* ------------------------------------------- parse_extensions and find_images
\* Names and the --extensions argument are sequences of characters, so that
\* startswith, suffix, lower, strip and split act on what is written.
DirNames == {<<"s">>, <<".", "g">>}
FileNames == {<<"a", ".", "j", "p", "g">>, <<"b", ".", "J", "P", "G">>,
              <<".", "c", ".", "j", "p", "g">>, <<"d", ".", "t", "x", "t">>,
              <<"j", "p", "g">>}
DirPaths == {<<>>} \cup {<<d>> : d \in DirNames}
                   \cup {<<d, e>> : d \in DirNames, e \in {<<"s">>}}
                   \cup {<<<<"s">>, <<".", "g">>>>}
FilePaths == {Append(d, f) : d \in DirPaths, f \in FileNames}
RECURSIVE SetsUpTo(_, _)
SetsUpTo(S, n) ==
    IF n = 0 THEN {{}}
    ELSE LET smaller == SetsUpTo(S, n - 1)
         IN smaller \cup {t \cup {x} : t \in smaller, x \in S}
Trees == SetsUpTo(FilePaths, MaxFiles)
ExtensionArgs == {<<".", "j", "p", "g">>,
                  <<"J", "P", "G", ",", " ", "t", "x", "t">>,
                  <<".", "t", "x", "t", ",">>}
ScanDirs == {"/a", "/link"}

\* str.lower on the letters that occur.
LowerOf == [J |-> "j", P |-> "p", G |-> "g"]
lower(s) == [i \in 1..Len(s) |-> IF s[i] \in DOMAIN LowerOf THEN LowerOf[s[i]] ELSE s[i]]
\* str.strip
RECURSIVE strip(_)
strip(s) ==
    IF Len(s) = 0 THEN s
    ELSE IF s[1] = " " THEN strip(Tail(s))
    ELSE IF s[Len(s)] = " " THEN strip(SubSeq(s, 1, Len(s) - 1))
    ELSE s
\* str.split(','): the pieces between the commas, empty ones included.
RECURSIVE split(_)
split(s) ==
    IF \A i \in 1..Len(s) : s[i] # "," THEN <<s>>
    ELSE LET i == CHOOSE k \in 1..Len(s) : s[k] = "," /\ \A j \in 1..(k - 1) : s[j] # ","
         IN <<SubSeq(s, 1, i - 1)>> \o split(SubSeq(s, i + 1, Len(s)))
startswith_dot(s) == Len(s) > 0 /\ s[1] = "."
parse_extensions(extensions_str) ==
    LET pieces == split(extensions_str)
        exts == {lower(strip(pieces[i])) : i \in 1..Len(pieces)}
    IN {IF startswith_dot(e) THEN e ELSE <<".">> \o e : e \in {x \in exts : Len(x) > 0}}
\* Path(filename).suffix: from the last dot on, unless that dot is the first
\* or the last character of the name.
suffix(name) ==
    LET dots == {i \in 1..Len(name) : name[i] = "."}
    IN IF dots = {} THEN <<>>
       ELSE LET i == CHOOSE k \in dots : \A j \in dots : j <= k
            IN IF 1 < i /\ i < Len(name) THEN SubSeq(name, i, Len(name)) ELSE <<>>

\* dirs[:] = [d for d in dirs if not d.startswith('.')]
prune_KeepsAll(dirs) == dirs
prune(dirs) == {d \in dirs : ~startswith_dot(d)}

\* os.walk from the directory dir of the tree, top down: the files of a
\* directory, then its kept subdirectories one after the other, each listing
\* in any order.  The value is the set of sequences find_images can yield.
RECURSIVE walk_from(_, _, _)
RECURSIVE walk_dirs(_, _, _, _, _)
walk_dirs(tree, dir, order, k, extensions) ==
    IF k > Len(order) THEN {<<>>}
    ELSE {a \o b : a \in walk_from(tree, Append(dir, order[k]), extensions),
                   b \in walk_dirs(tree, dir, order, k + 1, extensions)}
walk_from(tree, dir, extensions) ==
    LET under == {f \in tree : Len(f) > Len(dir) /\ SubSeq(f, 1, Len(dir)) = dir}
        files == {f[Len(f)] : f \in {g \in under : Len(g) = Len(dir) + 1}}
        dirs == prune({f[Len(dir) + 1] : f \in {g \in under : Len(g) > Len(dir) + 1}})
        yielded == {Append(dir, n) :
                       n \in {x \in files : /\ ~startswith_dot(x)
                                            /\ lower(suffix(x)) \in extensions}}
    IN {a \o b : a \in Orderings(yielded),
                 b \in UNION {walk_dirs(tree, dir, o, 1, extensions) : o \in Orderings(dirs)}}
\* The directories os.walk lists.
RECURSIVE visited_from(_, _)
visited_from(tree, dir) ==
    LET under == {f \in tree : Len(f) > Len(dir) + 1 /\ SubSeq(f, 1, Len(dir)) = dir}
        dirs == prune({f[Len(dir) + 1] : f \in under})
    IN {dir} \cup UNION {visited_from(tree, Append(dir, d)) : d \in dirs}

scanFrame == <<fs, store, run, prev, dirty, nruns, nfsops, conns, lock, reader, an, cv, out,
               api>>

\* main: extensions = parse_extensions(args.extensions)
ParseExtensions ==
    /\ scan.pc = "given"
    /\ scan' = [scan EXCEPT !.pc = "parsed",
                            !.extensions = parse_extensions(scan.extensions_str)]
    /\ UNCHANGED scanFrame

\* list(find_images(root_path, extensions)): pairs of absolute and relative path
FindImages ==
    /\ scan.pc = "parsed"
    /\ LET root_path == ResolveRoot(scan.input_dir)
       IN \E rels \in walk_from(scan.tree, <<>>, scan.extensions) :
            scan' = [scan EXCEPT
                        !.pc = "scanned",
                        !.root = root_path,
                        !.images = [i \in 1..Len(rels) |->
                                       [abs |-> [root |-> root_path, rel |-> rels[i]],
                                        rel |-> rels[i]]],
                        !.visited = visited_from(scan.tree, <<>>)]
    /\ UNCHANGED scanFrame

InitScan ==
    /\ fs = [r \in Roots |-> [p \in Paths |-> Absent]]
    /\ store = {}
    /\ run = IdleRun
    /\ prev = NoPrev
    /\ dirty = FALSE
    /\ nruns = 0
    /\ nfsops = 0
    /\ conns = [c \in ConnIds |-> IdleConn]
    /\ lock = "none"
    /\ reader = NoRead
    /\ an = NoScores
    /\ cv = NoCv
    /\ out = NoOut
    /\ api = NoCall
    /\ \E input_dir \in ScanDirs, tree \in Trees, arg \in ExtensionArgs :
           scan = [NoScan EXCEPT !.pc = "given", !.input_dir = input_dir,
                                 !.tree = tree, !.extensions_str = arg]

NextScan == ParseExtensions \/ FindImages

SpecScan == InitScan /\ [][NextScan]_vars

\* --------------------------------------------------------- write_summary_json
\* The stores an export starts from and the summary file it finds: none, or
\* the document of an earlier export.
ExportRows ==
    {[id |-> 1, root |-> "/a", path |-> "p.jpg", size_bytes |-> 10, mtime_ns |-> 100,
      analysis |-> "ok", analyzed_at |-> 1],
     [id |-> 2, root |-> "/a", path |-> "q.jpg", size_bytes |-> 20, mtime_ns |-> 200,
      analysis |-> "other", analyzed_at |-> 2],
     [id |-> 3, root |-> "/b", path |-> "p.jpg", size_bytes |-> 10, mtime_ns |-> 100,
      analysis |-> "ok", analyzed_at |-> 3]}
ExportStores == SUBSET ExportRows

\* Lines 232-246: the keys written for one record (no id, root or mtime_ns).
NoSummary == [path |-> "", size_bytes |-> 0, analysis |-> "none", analyzed_at |-> 0]
SummaryOf(record) ==
    [path |-> record.path, size_bytes |-> record.size_bytes,
     analysis |-> record.analysis, analyzed_at |-> record.analyzed_at]
\* json.dump writes the array chunk by chunk: the brackets, the items and the
\* separators between them.
Chunk(t) == [t |-> t, item |-> NoSummary]
RECURSIVE Items(_, _)
Items(records, k) ==
    IF k > Len(records) THEN <<>>
    ELSE (IF k > 1 THEN <<Chunk(",")>> ELSE <<>>)
         \o <<[t |-> "item", item |-> SummaryOf(records[k])]>>
         \o Items(records, k + 1)
Document(records) ==
    IF Len(records) = 0 THEN <<Chunk("[]")>>
    ELSE <<Chunk("[")>> \o Items(records, 1) \o <<Chunk("]")>>
SummaryFiles ==
    {NoFile} \cup {[exists |-> TRUE, content |-> Document(get_all_analyses_for_root(st, root))] :
                      st \in ExportStores, root \in Roots}

exportFrame == <<fs, run, prev, dirty, nruns, nfsops, conns, lock, reader, an, cv, scan, api>>

\* Lines 227-246: read the records of the root and build the output list.
ExportBuild ==
    /\ out.pc = "start"
    /\ out' = [out EXCEPT !.pc = "built",
                          !.document = Document(get_all_analyses_for_root(store, out.root))]
    /\ UNCHANGED <<store, exportFrame>>

\* Line 248: open(output_path, 'w') truncates the file, or creates it empty.
ExportOpen ==
    /\ out.pc = "built"
    /\ out' = [out EXCEPT !.pc = "writing", !.file = [exists |-> TRUE, content |-> <<>>]]
    /\ UNCHANGED <<store, exportFrame>>

\* Line 248 failing (no permission, no such directory): nothing is touched.
ExportOpenFails ==
    /\ out.pc = "built"
    /\ out' = [out EXCEPT !.pc = "failed"]
    /\ UNCHANGED <<store, exportFrame>>

\* Line 249: the next chunk reaches the file.
ExportWrite ==
    /\ out.pc = "writing"
    /\ Len(out.file.content) < Len(out.document)
    /\ out' = [out EXCEPT !.file.content = Append(@, out.document[Len(@) + 1])]
    /\ UNCHANGED <<store, exportFrame>>

\* Line 249 failing (disk full, I/O error): the with statement closes the file
\* and the exception leaves write_summary_json.
ExportWriteFails ==
    /\ out.pc = "writing"
    /\ Len(out.file.content) < Len(out.document)
    /\ out' = [out EXCEPT !.pc = "failed"]
    /\ UNCHANGED <<store, exportFrame>>

\* Lines 249-251: everything written, the file closed.
ExportClose ==
    /\ out.pc = "writing"
    /\ Len(out.file.content) = Len(out.document)
    /\ out' = [out EXCEPT !.pc = "done"]
    /\ UNCHANGED <<store, exportFrame>>

\* The process is killed, or the machine stops, during the export.
ExportCrash ==
    /\ out.pc \in {"built", "writing"}
    /\ out' = [out EXCEPT !.pc = "crashed"]
    /\ UNCHANGED <<store, exportFrame>>

InitExport ==
    /\ fs = [r \in Roots |-> [p \in Paths |-> Absent]]
    /\ store \in ExportStores
    /\ run = IdleRun
    /\ prev = NoPrev
    /\ dirty = FALSE
    /\ nruns = 0
    /\ nfsops = 0
    /\ conns = [c \in ConnIds |-> IdleConn]
    /\ lock = "none"
    /\ reader = NoRead
    /\ an = NoScores
    /\ cv = NoCv
    /\ scan = NoScan
    /\ api = NoCall
    /\ \E root \in Roots, before \in SummaryFiles :
           out = [NoOut EXCEPT !.pc = "start", !.root = root, !.before = before,
                               !.file = before]

NextExport ==
    \/ ExportBuild
    \/ ExportOpen
    \/ ExportOpenFails
    \/ ExportWrite
    \/ ExportWriteFails
    \/ ExportClose
    \/ ExportCrash

SpecExport == InitExport /\ [][NextExport]_vars

\* ============================================================== claims
\* What the formulas read off a run: the scanned paths and the logged events.
Scanned == {run.images[k] : k \in 1..Len(run.images)}
Logged(op, path, res) ==
    \E k \in 1..Len(run.log) : run.log[k] = Event(op, path, res)
LoggedOp(op) == \E k \in 1..Len(run.log) : run.log[k].op = op
Keys == Roots \X Paths

\* C1: after any sequence of init, upsert and reconcile operations issued by
\* sequential pipeline runs, the store holds at most one record for every
\* (root, relative path) pair.
C1_AtMostOneRecordPerKey ==
    \A k \in Keys : Cardinality(RowsFor(store, k[1], k[2])) <= 1

\* C1 witness: a run has upserted a record for a key that already had one.
C1_Witness ==
    /\ run.pc = "done"
    /\ \E r \in store, o \in run.storeStart :
          r.root = o.root /\ r.path = o.path /\ r # o

\* C2: when two upserts for the same (root, path) go through two connections
\* and their SELECT / INSERT-or-UPDATE / commit steps interleave, the store
\* never ends up with two rows for that (root, path).
C2_NoDuplicateUnderInterleaving ==
    \A r1, r2 \in store :
        (r1.root = r2.root /\ r1.path = r2.path) => r1.id = r2.id

\* C3: lookup(root, path, size, mtime) returns a record if and only if the
\* store holds a record for (root, path) whose size and modification time
\* both equal the given ones, the record returned is such a stored record,
\* and a lookup never changes the store.
C3_LookupReturns ==
    \A k \in Keys, size \in Sizes, mtime \in Mtimes :
        LET res == get_cached_analysis(store, k[1], k[2], size, mtime)
            matching == {r \in store : /\ r.root = k[1] /\ r.path = k[2]
                                       /\ r.size_bytes = size /\ r.mtime_ns = mtime}
        IN /\ (res # NoRow) <=> (matching # {})
           /\ (res # NoRow) => (res \in matching)
C3_LookupStep ==
    /\ Len(run'.log) > Len(run.log)
    /\ run'.log[Len(run'.log)].op = "lookup"
C3_LookupExact ==
    /\ []C3_LookupReturns
    /\ [][C3_LookupStep => store' = store]_vars

\* C3 witness: a lookup in a run missed although the store held a record for
\* the path (with another fingerprint), and another lookup hit.
C3_Witness ==
    /\ \E p \in Paths : /\ Logged("lookup", p, "miss")
                         /\ RowsFor(run.storeStart, run.root, p) # {}
    /\ \E p \in Paths : Logged("lookup", p, "hit")
\* The entry of a scanned path, its fingerprint on disk, and the fingerprint
\* of a stored row.
EntryOf(p) == fs[run.dir][p]
DiskFp(p) == <<EntryOf(p).size, EntryOf(p).mtime>>
RowFp(r) == <<r.size_bytes, r.mtime_ns>>
Analyzed(p) == Logged("analyze", p, "ok") \/ Logged("analyze", p, "error")

\* A second non-force run over the same root has ended, after a non-force run
\* that completed, with no file added, removed or changed since that run began.
SecondRunUnchanged ==
    /\ run.pc = "done"
    /\ run.cleanPrev
    /\ prev.how = "finished"
    /\ prev.root = run.root
    /\ ~prev.force
    /\ ~run.force

\* C4 as claimed: for every directory state, the second of two non-force runs
\* over an unchanged directory reports analyzed == 0 and cached == total.
C4_SecondRunAllCached ==
    SecondRunUnchanged =>
        (run.stats.analyzed = 0 /\ run.stats.cached = run.stats.total)

\* C4 amended: the second of two non-force runs over an unchanged directory
\* reports analyzed == 0 and cached == total - errors, and cached == total
\* when every scanned file can be stat'ed and decoded.
C4_SecondRunNothingAnalyzed ==
    SecondRunUnchanged =>
        /\ run.stats.analyzed = 0
        /\ run.stats.cached = run.stats.total - run.stats.errors
        /\ (\A p \in Scanned : DecodeOk(EntryOf(p))) =>
               (run.stats.cached = run.stats.total /\ run.stats.errors = 0)

\* C4 witness: a second run over an unchanged directory of two files ended
\* with both served from the cache.
C4_Witness ==
    /\ SecondRunUnchanged
    /\ run.stats.total = 2
    /\ run.stats.cached = 2

\* C5: after every completed run over a root no stored record of that root
\* has a relative path absent from the run's scan, and the run reports as
\* deleted the records whose files were removed.
C5_RemovedFilesReconciled ==
    run.pc = "done" =>
        /\ \A r \in RowsOfRoot(store, run.root) : r.path \in Scanned
        /\ run.stats.deleted =
              Cardinality({r.path : r \in RowsOfRoot(run.storeStart, run.root)}
                          \ Scanned)

\* C6: a run whose scan yields no entries returns total = analyzed = cached =
\* errors = deleted = 0, performs no upsert and no reconcile, and leaves
\* every record in the store unchanged.
C6_ZeroFileRun ==
    (run.pc = "done" /\ run.images = <<>>) =>
        /\ run.stats = ZeroStats
        /\ run.log = <<>>
        /\ store = run.storeStart

\* C6 witness: a zero-file run has returned while the store holds records of
\* its root.
C6_Witness ==
    /\ run.pc = "done"
    /\ run.images = <<>>
    /\ RowsOfRoot(store, run.root) # {}

\* C7: reconcile(root, seen) deletes a stored record of root if and only if
\* its relative path is not in seen, against the full set of paths stored for
\* root at the call, and returns exactly the number of records it deleted;
\* in a run, the records of the root that survive are those of seen paths.
C7_ReconcileExact ==
    /\ \A root \in Roots, seen \in SUBSET Paths :
          LET d == delete_missing_files(store, root, seen)
          IN /\ d.store = {r \in store : ~(r.root = root /\ r.path \notin seen)}
             /\ d.deleted = Cardinality(store \ d.store)
    /\ (run.pc = "done" /\ LoggedOp("reconcile")) =>
          LET old == RowsOfRoot(run.storeStart, run.root)
              kept == {o \in old : \E r \in store : r.id = o.id}
          IN /\ kept = {o \in old : o.path \in run.existing_paths}
             /\ run.stats.deleted = Cardinality(old \ kept)
             /\ {r \in store : r.root # run.root}
                  = {r \in run.storeStart : r.root # run.root}

\* C7 witness: the reconcile of a run deleted a record and kept another record
\* of the same root.
C7_Witness ==
    /\ run.pc = "done"
    /\ LoggedOp("reconcile")
    /\ run.stats.deleted >= 1
    /\ RowsOfRoot(store, run.root) # {}

\* A scanned file that stats, with a stored record whose fingerprint differs.
FingerprintChanged(p) ==
    /\ StatOk(EntryOf(p))
    /\ \E o \in RowsFor(run.storeStart, run.root, p) : RowFp(o) # DiskFp(p)

\* C8: if a file has a stored record and its size or modification time on
\* disk differs from the stored fingerprint at a non-force run, the run does
\* not count it as cached, it analyzes it, and on success the stored record's
\* fingerprint is the new one.
C8_FingerprintSensitivity ==
    (run.pc = "done" /\ ~run.force) =>
        \A p \in Scanned :
            FingerprintChanged(p) =>
                /\ Logged("lookup", p, "miss")
                /\ ~Logged("lookup", p, "hit")
                /\ Analyzed(p)
                /\ run.stats.cached <= run.stats.total - 1
                /\ DecodeOk(EntryOf(p)) =>
                      /\ Logged("upsert", p, "ok")
                      /\ RowsFor(store, run.root, p) # {}
                      /\ \A r \in RowsFor(store, run.root, p) : RowFp(r) = DiskFp(p)

\* C8 witness: a non-force run re-analyzed a decodable file whose fingerprint
\* had changed and stored the new fingerprint.
C8_Witness ==
    /\ run.pc = "done"
    /\ ~run.force
    /\ \E p \in Scanned : /\ FingerprintChanged(p)
                           /\ DecodeOk(EntryOf(p))
                           /\ Logged("upsert", p, "ok")

\* A run has ended over a directory of exactly one undecodable image and
\* ValidCount decodable ones.
ValidPaths == {p \in Scanned : DecodeOk(EntryOf(p))}
ValidCount == Cardinality(ValidPaths)
OneCorruptDir ==
    /\ run.pc = "done"
    /\ \A p \in Scanned : EntryOf(p).kind = "file"
    /\ Cardinality(Scanned \ ValidPaths) = 1

\* No scanned file can be served from the cache: the run is forced, or no
\* record stored for a scanned file matches its fingerprint.
NothingCached ==
    \/ run.force
    \/ \A p \in Scanned :
          \A o \in RowsFor(run.storeStart, run.root, p) : RowFp(o) # DiskFp(p)

C10_ForceAnalyzesAll ==
    (run.pc = "done" /\ run.force) =>
        /\ ~LoggedOp("lookup")
        /\ run.stats.cached = 0
        /\ \A p \in Scanned : Analyzed(p)

\* C10 amended: in a run with force enabled, lookup is never consulted,
\* cached == 0 at the end, and every scanned file whose stat succeeds is
\* passed to the analyzer whatever the store holds; a scanned entry whose
\* stat fails is counted as an error without reaching the analyzer.
C10_ForceAnalyzesStatted ==
    (run.pc = "done" /\ run.force) =>
        /\ ~LoggedOp("lookup")
        /\ run.stats.cached = 0
        /\ \A p \in Scanned : Analyzed(p) <=> StatOk(EntryOf(p))
        /\ run.stats.analyzed + run.stats.errors = run.stats.total

\* C10 witness: a forced run analyzed a file although the store held a record
\* with its fingerprint.
C10_Witness ==
    /\ run.pc = "done"
    /\ run.force
    /\ \E p \in Scanned :
          /\ \E o \in RowsFor(run.storeStart, run.root, p) : RowFp(o) = DiskFp(p)
          /\ Logged("analyze", p, "ok")

\* C11: for every record r, upsert(r) followed by lookup(r.root, r.path,
\* r.size, r.mtime) returns a record equal to r in every field other than the
\* id, whether or not a record for (r.root, r.path) existed before the upsert.
NonIdEqual(row, r) ==
    /\ row.root = r.root /\ row.path = r.path
    /\ row.size_bytes = r.size_bytes /\ row.mtime_ns = r.mtime_ns
    /\ row.analysis = r.analysis /\ row.analyzed_at = r.analyzed_at
C11_RoundTrip ==
    api.op = "upsert" =>
       LET r == api.data
           row == get_cached_analysis(store, r.root, r.path, r.size_bytes, r.mtime_ns)
       IN row # NoRow /\ NonIdEqual(row, r)

\* C11 witness: the upsert went to a key whose record differed from r in every
\* column the UPDATE sets, next to a record of another key.
C11_Witness ==
    /\ api.op = "upsert"
    /\ \E o \in RowsFor(api.before, api.data.root, api.data.path) :
          /\ o.size_bytes # api.data.size_bytes /\ o.mtime_ns # api.data.mtime_ns
          /\ o.analysis # api.data.analysis /\ o.analyzed_at # api.data.analyzed_at
    /\ \E x \in store : x.path # api.data.path

\* C12: if a run terminates abnormally after k entries have been upserted,
\* the store still holds those k records, and a following non-force run over
\* the unchanged directory counts each of those k files as cached and analyzes
\* only the remaining ones.
ResumedRun ==
    /\ run.pc = "done"
    /\ prev.how = "crashed"
    /\ run.cleanPrev
    /\ run.root = prev.root
    /\ ~run.force
C12_CrashDurability ==
    /\ (prev.how = "crashed" /\ prev.n = nruns) =>
          \A p \in prev.upserted :
             \E r \in RowsFor(store, prev.root, p) :
                /\ r.size_bytes = fs[prev.root][p].size
                /\ r.mtime_ns = fs[prev.root][p].mtime
    /\ ResumedRun =>
          /\ \A p \in prev.upserted :
                p \in Scanned /\ Logged("lookup", p, "hit")
                /\ ~Logged("analyze", p, "ok") /\ ~Logged("analyze", p, "error")
          /\ run.stats.cached >= Cardinality(prev.upserted)
          /\ run.stats.analyzed <= run.stats.total - Cardinality(prev.upserted)

\* C12 witness: the run died with one of two files upserted, and the next run
\* found that one cached and analyzed the other.
C12_Witness ==
    /\ ResumedRun
    /\ Cardinality(prev.upserted) = 1
    /\ run.stats.cached = 1
    /\ run.stats.analyzed = 1

\* C13: a run with per-file errors still completes: every scanned entry is
\* processed exactly once in scan order, a stat or decode failure is caught at
\* its entry and the following entries are still processed, and reconcile is
\* invoked exactly once, after the last entry, whether or not errors occurred.
IsStat(ev) == ev.op = "stat"
IsReconcile(ev) == ev.op = "reconcile"
PathsIn(events) == [k \in 1..Len(events) |-> events[k].path]
Taken ==
    IF run.pc = "analyze" THEN run.i
    ELSE IF run.pc = "loop" THEN run.i - 1
    ELSE Len(run.images)
C13_ErrorsDoNotStopTheRun ==
    (run.pc # "idle" /\ Len(run.images) > 0) =>
        /\ PathsIn(SelectSeq(run.log, IsStat)) = SubSeq(run.images, 1, Taken)
        /\ \A k \in 1..Len(run.log) :
              run.log[k].op \notin {"stat", "reconcile"} =>
                 \E j \in 1..(k - 1) :
                    /\ run.log[j].op = "stat" /\ run.log[j].path = run.log[k].path
                    /\ \A m \in (j + 1)..k : run.log[m].op # "stat"
        /\ Len(SelectSeq(run.log, IsReconcile)) = (IF run.pc = "done" THEN 1 ELSE 0)
        /\ run.pc = "done" => run.log[Len(run.log)].op = "reconcile"

\* C13 witness: the first of two entries failed, the second was analyzed and
\* upserted, and the run reconciled.
C13_Witness ==
    /\ run.pc = "done"
    /\ Len(run.images) = 2
    /\ run.log[1].path = run.images[1]
    /\ \/ run.log[1] = Event("stat", run.images[1], "error")
       \/ run.log[2] = Event("analyze", run.images[1], "error")
    /\ Logged("upsert", run.images[2], "ok")
    /\ run.stats.errors = 1

\* C14: for every run that reaches the end of processing, the outcome is
\* success (exit code 0) if and only if the errors count is 0; a run with
\* errors >= 1 yields a non-zero outcome although its summary is produced.
C14_ExitZeroIffNoErrors ==
    prev.how = "finished" =>
        /\ prev.exit = 0 <=> prev.errors = 0
        /\ prev.summary

\* C14 as amended: the exit code is 0 if and only if the errors count is 0
\* and the JSON summary, when asked for, was written; the counts are printed
\* in every case.
C14_ExitZeroIffNoErrorsAndExported ==
    prev.how = "finished" =>
        /\ prev.exit = 0 <=> (prev.errors = 0 /\ prev.export # "failed")
        /\ prev.errors >= 1 => prev.exit # 0
        /\ prev.summary

\* C14 witness: the second run of a behaviour ended without errors and its
\* JSON summary could not be written.
C14_Witness ==
    /\ prev.how = "finished"
    /\ prev.errors = 0
    /\ prev.export = "failed"
    /\ prev.exit = 1
    /\ prev.n = 2

\* C15: when the root path is missing or is not a directory, the run ends
\* with a non-zero outcome without opening or modifying the store and without
\* printing or exporting a summary; when the store cannot be opened or
\* initialized, the run likewise ends with a non-zero outcome and no summary.
FatalOutcome ==
    prev.how = "fatal" =>
        /\ prev.exit # 0
        /\ ~prev.summary
        /\ prev.export = "none"
        /\ prev.kind \in {"missing", "notdir"} => ~prev.init_db
FatalStep == prev'.how = "fatal" /\ prev'.n # prev.n
C15_FatalFailures ==
    /\ []FatalOutcome
    /\ [][FatalStep => (store' = store /\ run' = run /\ run.pc = "idle")]_vars

\* C15 witness: main was called on a path that is no directory while the
\* store held records.
C15_Witness ==
    /\ prev.how = "fatal"
    /\ prev.kind = "notdir"
    /\ store # {}

\* C16: list_by_root(root) returns every record stored for root and no record
\* of any other root, each exactly once, in ascending lexicographic order of
\* relative path.
LexLess(a, b) ==
    \E k \in 1..(Min(Len(a), Len(b)) + 1) :
        /\ \A m \in 1..(k - 1) : a[m] = b[m]
        /\ \/ k > Len(a) /\ k <= Len(b)
           \/ k <= Len(a) /\ k <= Len(b) /\ a[k] < b[k]
C16_ListByRoot ==
    api.op = "list" =>
        /\ {api.list[k] : k \in 1..Len(api.list)} = {r \in store : r.root = api.data.root}
        /\ \A i, j \in 1..Len(api.list) : i # j => api.list[i] # api.list[j]
        /\ \A i \in 1..(Len(api.list) - 1) :
              LexLess(Utf8(api.list[i].path), Utf8(api.list[i + 1].path))

\* C16 witness: the root listed holds records that were inserted in another
\* order than that of their paths, and the other root holds one.
C16_Witness ==
    /\ api.op = "list"
    /\ Len(api.list) = 2
    /\ api.list[1].id > api.list[2].id
    /\ \E r \in store : r.root # api.data.root

\* C17: two runs whose input directory arguments are different spellings
\* (relative path, symlink, redundant segments) of the same directory use the
\* same root key in the store, so that the second non-force run over the
\* unchanged directory reports every file as cached.
RespelledRun ==
    /\ run.pc = "done"
    /\ run.cleanPrev
    /\ prev.how = "finished"
    /\ ~prev.force
    /\ ~run.force
    /\ prev.input_dir # run.input_dir
    /\ KernelDir(prev.input_dir) = run.dir
CanonicalKey ==
    /\ run.pc # "idle" => run.root = run.dir
    /\ \A r \in store : r.root \in Roots
C17_RespelledRunAllCached ==
    /\ CanonicalKey
    /\ RespelledRun =>
          (prev.root = run.root /\ run.stats.cached = run.stats.total)

\* C17 as amended: the root key is the resolved directory whatever the
\* spelling, and the second non-force run over the unchanged directory,
\* spelled differently, analyzes nothing and reports cached == total - errors
\* (every file that can be stat'ed and decoded is reported as cached).
C17_RespelledRunNothingAnalyzed ==
    /\ CanonicalKey
    /\ RespelledRun =>
          /\ prev.root = run.root
          /\ run.stats.analyzed = 0
          /\ run.stats.cached = run.stats.total - run.stats.errors
          /\ \A p \in Scanned : DecodeOk(EntryOf(p)) => Logged("lookup", p, "hit")

\* C17 witness: the directory was first given as a symbolic link and then as
\* a relative path, and the second run found both files cached.
C17_Witness ==
    /\ RespelledRun
    /\ prev.input_dir = "/link"
    /\ run.input_dir = "a"
    /\ run.stats.total = 2
    /\ run.stats.cached = 2

\* C18: a reader using a separate store connection never observes a
\* half-applied upsert: at every point of an interleaving with a writer's
\* upsert of (root, path), every record the reader sees for that key is a
\* complete previous record or the complete new record, never a mix of old and
\* new field values.
C18_ReaderSeesWholeRecords ==
    \A r \in reader.rows :
        /\ r.root = reader.root /\ r.path = reader.path
        /\ \E v \in UpsertData : NonIdEqual(r, v)

\* C18 witness: the reader read the key while a writer held an uncommitted
\* UPDATE of it with other values in every column, and saw the previous record.
C18_Witness ==
    \E c \in ConnIds :
        /\ conns[c].pc = "commit"
        /\ reader.during = c
        /\ conns[c].existing # 0
        /\ conns[c].data.path = reader.path
        /\ \E r \in reader.rows :
              /\ r.id = conns[c].existing
              /\ r.size_bytes # conns[c].data.size_bytes
              /\ r.analyzed_at # conns[c].data.analyzed_at

\* C19: for every blur score s, categorize_blur(s) is sharp iff s >= 150.0,
\* soft iff 50.0 <= s < 150.0, and blurry iff s < 50.0 (150.0 is sharp, 149.99
\* is soft, 50.0 is soft, 49.99 is blurry). Scores in thousandths.
C19_BlurCategories ==
    an.blur_category # "none" =>
        /\ an.blur_category = "sharp" <=> an.blur_score >= 150000
        /\ an.blur_category = "soft" <=>
              (50000 <= an.blur_score /\ an.blur_score < 150000)
        /\ an.blur_category = "blurry" <=> an.blur_score < 50000
        /\ an.blur_score = 149990 => an.blur_category = "soft"
        /\ an.blur_score = 49990 => an.blur_category = "blurry"

\* C19 witness: the score 50.0 has been categorized, and is soft.
C19_Witness ==
    /\ an.blur_score = 50000
    /\ an.blur_category = "soft"

\* C20: for every center score c >= 0, categorize_centering(c) is
\* well_centered iff c <= 0.15, somewhat_centered iff 0.15 < c <= 0.35, and
\* off_center iff c > 0.35 (0.15 is well_centered, 0.1501 and 0.35 are
\* somewhat_centered, 0.3501 is off_center). Scores in hundred-thousandths.
C20_CenteringCategories ==
    an.center_category # "none" =>
        /\ an.center_category = "well_centered" <=> an.center_score <= 15000
        /\ an.center_category = "somewhat_centered" <=>
              (15000 < an.center_score /\ an.center_score <= 35000)
        /\ an.center_category = "off_center" <=> an.center_score > 35000
        /\ an.center_score = 15010 => an.center_category = "somewhat_centered"
        /\ an.center_score = 35010 => an.center_category = "off_center"

\* C20 witness: the score 0.35 has been categorized, and is somewhat_centered.
C20_Witness ==
    /\ an.center_score = 35000
    /\ an.center_category = "somewhat_centered"

\* C21: whenever the face detector and the cat-face detector both return an
\* empty list for an image, analyze_image returns has_person = false,
\* has_pet = false, center_score = 0.0 and center_category = well_centered,
\* whatever the size of the image.
C21_NoDetectionConvention ==
    (cv.last.op = "analyze_image" /\ cv.last.faces = <<>> /\ cv.last.cats = <<>>) =>
        /\ cv.last.dict.has_person = FALSE
        /\ cv.last.dict.has_pet = FALSE
        /\ cv.last.dict.center_score = 0
        /\ cv.last.dict.center_category = "well_centered"
\* Both cascades are loaded and neither finds anything in a 1000 x 500 image.
C21_Witness ==
    /\ cv.last.op = "analyze_image"
    /\ cv.face = "loaded" /\ cv.cat = "loaded"
    /\ cv.last.faces = <<>> /\ cv.last.cats = <<>>
    /\ cv.last.dict.height = 500
    /\ cv.last.dict.center_category = "well_centered"

\* C22: find_images yields exactly the files of the tree whose own name does not
\* start with '.', none of whose directories below the root has a name
\* starting with '.', and whose extension lower-cased is an accepted one; no
\* directory at or below a directory whose name starts with '.' is visited;
\* each yielded file appears once, with its path relative to the resolved root.
EndsWith(name, e) ==
    /\ Len(name) > Len(e)
    /\ lower(SubSeq(name, Len(name) - Len(e) + 1, Len(name))) = e
    /\ \A i \in (Len(name) - Len(e) + 2)..Len(name) : name[i] # "."
Visible(f) ==
    /\ \A k \in 1..Len(f) : f[k][1] # "."
    /\ \E e \in scan.extensions : EndsWith(f[Len(f)], e)
C22_FileScanner ==
    scan.pc = "scanned" =>
        /\ {scan.images[i].rel : i \in 1..Len(scan.images)} = {f \in scan.tree : Visible(f)}
        /\ \A i, j \in 1..Len(scan.images) :
               scan.images[i].rel = scan.images[j].rel => i = j
        /\ \A i \in 1..Len(scan.images) :
               /\ scan.images[i].abs.root \in Roots
               /\ scan.images[i].abs.root = KernelDir(scan.input_dir)
               /\ scan.images[i].abs.rel = scan.images[i].rel
        /\ \A d \in scan.visited : \A k \in 1..Len(d) : d[k][1] # "."
\* A scan through the link that yields one file with an upper-case extension
\* and leaves out a file with an accepted extension below a hidden directory.
C22_Witness ==
    /\ scan.pc = "scanned"
    /\ scan.input_dir = "/link"
    /\ Len(scan.images) = 1
    /\ scan.images[1].rel = <<<<"s">>, <<"b", ".", "J", "P", "G">>>>
    /\ <<<<".", "g">>, <<"s">>, <<"a", ".", "j", "p", "g">>>> \in scan.tree

\* C23: among the face boxes followed by the cat-face boxes, the box
\* analyze_image centers on has an area (width * height) at least that of
\* every other box, and of the boxes of that largest area it is the first in
\* the concatenated order.
Detections == cv.last.faces \o cv.last.cats
C23_LargestDetection ==
    (cv.last.op = "analyze_image" /\ Len(Detections) > 0) =>
        \E i \in 1..Len(Detections) :
            /\ cv.last.largest = Detections[i]
            /\ \A j \in 1..Len(Detections) : Detections[j].w * Detections[j].h
                                               <= Detections[i].w * Detections[i].h
            /\ \A j \in 1..(i - 1) : Detections[j].w * Detections[j].h
                                       < Detections[i].w * Detections[i].h
            /\ cv.last.raw_center =
                   calculate_center_score(Detections[i], cv.image.width, cv.image.height)
\* A face box and a different cat-face box of the same area: the face box,
\* first in the concatenation, is the one centered on.
C23_Witness ==
    /\ cv.last.op = "analyze_image"
    /\ Len(cv.last.faces) = 1 /\ Len(cv.last.cats) = 1
    /\ cv.last.faces[1] # cv.last.cats[1]
    /\ cv.last.faces[1].w * cv.last.faces[1].h = cv.last.cats[1].w * cv.last.cats[1].h
    /\ cv.last.largest = cv.last.faces[1]

\* C24: over any sequence of detect calls of one process, nothing is loaded
\* before the first call, each of the two models is loaded once, by the first
\* call, and never again; a model whose load failed stays failed on later
\* calls (no retry), its failure is logged once, and every detect call for it
\* returns the empty list.
LoadedOnce ==
    /\ cv.calls = 0 => (cv.face = "none" /\ cv.cat = "none"
                        /\ cv.face_loads = 0 /\ cv.cat_loads = 0)
    /\ cv.calls > 0 => (cv.face # "none" /\ cv.cat # "none"
                        /\ cv.face_loads = 1 /\ cv.cat_loads = 1)
    /\ cv.face_warnings = (IF cv.face = "empty" THEN 1 ELSE 0)
    /\ cv.cat_warnings = (IF cv.cat = "empty" THEN 1 ELSE 0)
    /\ (cv.face = "empty" /\ cv.last.op \in {"detect_faces", "analyze_image"}) =>
           cv.last.faces = <<>>
    /\ (cv.cat = "empty" /\ cv.last.op \in {"detect_cat_faces", "analyze_image"}) =>
           cv.last.cats = <<>>
NoRetry ==
    /\ cv.face # "none" => (cv'.face = cv.face /\ cv'.face_loads = cv.face_loads
                            /\ cv'.face_warnings = cv.face_warnings)
    /\ cv.cat # "none" => (cv'.cat = cv.cat /\ cv'.cat_loads = cv.cat_loads
                           /\ cv'.cat_warnings = cv.cat_warnings)
C24_LazyInitialization == []LoadedOnce /\ [][NoRetry]_vars
\* The second detect_faces call of a process whose face model failed to load,
\* on an image in which a loaded model finds a face.
C24_Witness ==
    /\ cv.calls = 2
    /\ cv.face = "empty" /\ cv.face_loads = 1 /\ cv.face_warnings = 1
    /\ cv.last.op = "detect_faces"
    /\ cv.image.faces # <<>>
    /\ cv.last.faces = <<>>

\* C29: in every result analyze_image returns, blur_category is the category
\* the blur thresholds assign to the returned (rounded) blur_score, and
\* center_category is the category the centering thresholds assign to the
\* returned (rounded) center_score.
C29_ScoreCategoryConsistency ==
    cv.last.op = "analyze_image" =>
        /\ cv.last.dict.blur_category = categorize_blur(cv.last.dict.blur_score)
        /\ cv.last.dict.center_category = categorize_centering(cv.last.dict.center_score)

\* C25: if the export is interrupted at any point (crash or write failure),
\* the summary path holds either what it held before the export or the
\* complete new array of records, never a truncated or partly written
\* document.
C25_ExportAtomic ==
    out.pc \in {"crashed", "failed"} =>
        \/ out.file = out.before
        \/ out.file = [exists |-> TRUE, content |-> out.document]

\* C26: at the end of every run that scanned at least one file,
\* total = analyzed + cached + errors, total is the number of scanned entries,
\* and every scanned entry was counted exactly once: as cached (a cache hit),
\* as analyzed (an upsert) or as an error (a failed stat or decode).
Counting(ev) ==
    \/ (ev.op = "lookup" /\ ev.res = "hit")
    \/ (ev.op = "upsert" /\ ev.res = "ok")
    \/ ev.res = "error"
CountedFor(p) == {k \in 1..Len(run.log) : run.log[k].path = p /\ Counting(run.log[k])}
NumberOf(op, res) ==
    Cardinality({k \in 1..Len(run.log) : run.log[k].op = op /\ run.log[k].res = res})
C26_CountConservation ==
    (run.pc = "done" /\ Len(run.images) > 0) =>
        /\ run.stats.total = run.stats.analyzed + run.stats.cached + run.stats.errors
        /\ run.stats.total = Len(run.images)
        /\ run.stats.total = Cardinality(Scanned)
        /\ \A p \in Scanned : Cardinality(CountedFor(p)) = 1
        /\ run.stats.cached = NumberOf("lookup", "hit")
        /\ run.stats.analyzed = NumberOf("upsert", "ok")
        /\ run.stats.errors = NumberOf("stat", "error") + NumberOf("analyze", "error")
\* A run over two entries, one served from the cache and one failing.
C26_Witness ==
    /\ run.pc = "done"
    /\ run.stats.total = 2
    /\ run.stats.cached = 1
    /\ run.stats.errors = 1

\* C27: after every completed run that scanned at least one file, for each
\* scanned path counted as cached or analyzed the store holds a record for
\* (root, path) whose size and modification time are those read from the file
\* system for that path during the run.
CountedCachedOrAnalyzed(p) == Logged("lookup", p, "hit") \/ Logged("upsert", p, "ok")
C27_CacheCoherency ==
    (run.pc = "done" /\ Len(run.images) > 0) =>
        \A p \in Scanned :
            CountedCachedOrAnalyzed(p) =>
                \E r \in store : /\ r.root = run.root
                                 /\ r.path = p
                                 /\ r.size_bytes = fs[run.dir][p].size
                                 /\ r.mtime_ns = fs[run.dir][p].mtime
\* A completed run whose store began with an outdated record for a path it
\* analyzed, and which served another path from the cache.
C27_Witness ==
    /\ run.pc = "done"
    /\ run.stats.cached = 1
    /\ run.stats.analyzed = 1
    /\ \E p \in Scanned :
           /\ Logged("upsert", p, "ok")
           /\ \E r \in run.storeStart : /\ r.root = run.root
                                        /\ r.path = p
                                        /\ <<r.size_bytes, r.mtime_ns>>
                                             # <<fs[run.dir][p].size, fs[run.dir][p].mtime>>

\* C28: when processing a scanned entry fails (stat or decode error), no upsert
\* is made for it, its path is in the seen set all the same, and the
\* reconcile at the end of the run does not delete the record stored for it:
\* the record is what it was when the run began.
Failed(p) == Logged("stat", p, "error") \/ Logged("analyze", p, "error")
C28_FailureLeavesRecord ==
    \A p \in Scanned :
        Failed(p) =>
            /\ ~Logged("upsert", p, "ok")
            /\ p \in run.existing_paths
            /\ RowsFor(store, run.root, p) = RowsFor(run.storeStart, run.root, p)
\* A completed run in which an entry failed to decode, and the record stored
\* for it, with a fingerprint that is no longer the file's, is still there.
C28_Witness ==
    /\ run.pc = "done"
    /\ \E p \in Scanned :
           /\ Logged("analyze", p, "error")
           /\ \E r \in store : /\ r.root = run.root
                                /\ r.path = p
                                /\ <<r.size_bytes, r.mtime_ns>>
                                     # <<fs[run.dir][p].size, fs[run.dir][p].mtime>>

\* C30: a cache hit writes nothing: the record of a file counted as cached is,
\* analyzed_at included, what it was when the run began; and a run without
\* force in which every file is cached and no stored path of the root is
\* missing from the scan leaves the whole store as it was before the run.
AllCachedNothingMissing ==
    /\ run.pc = "done"
    /\ ~run.force
    /\ run.stats.cached = run.stats.total
    /\ \A r \in run.storeStart : r.root = run.root => r.path \in Scanned
C30_CacheHitWritesNothing ==
    /\ \A p \in Scanned :
           Logged("lookup", p, "hit") =>
               RowsFor(store, run.root, p) = RowsFor(run.storeStart, run.root, p)
    /\ AllCachedNothingMissing => store = run.storeStart
\* A completed run over two files, both served from the cache, while the store
\* holds their two records.
C30_Witness ==
    /\ AllCachedNothingMissing
    /\ run.stats.cached = 2
    /\ Cardinality(store) = 2

\* C31: an upsert of a record for (root A, path) and a reconcile of root A
\* insert, modify and delete no record whose root is not A, also when another
\* root stores the same relative path.
OtherRoots(st, root) == {r \in st : r.root # root}
WritesOnlyItsRoot ==
    (api'.n = api.n + 1 /\ api'.op \in {"upsert", "delete"}) =>
        OtherRoots(store', api'.data.root) = OtherRoots(store, api'.data.root)
C31_RootIsolation == [][WritesOnlyItsRoot]_vars
\* "p.jpg" was stored under both roots, and a reconcile of "/a" has deleted
\* the record of "/a" while that of "/b" is still there.
C31_Witness ==
    /\ api.op = "delete"
    /\ api.data.root = "/a"
    /\ api.n = 3
    /\ RowsFor(store, "/a", "p.jpg") = {}
    /\ RowsFor(store, "/b", "p.jpg") # {}

\* C32: on every path by which process_images returns normally, the zero-file
\* early return included, the store connection it opened has been closed, so
\* that none is still open when main goes on to the summary export.  A
\* connection the interpreter has already finalized counts as released.
C32_ConnectionReleased == run.pc = "done" => run.conn \in {"closed", "finalized"}

====
